---- MODULE Spec2Model ----
(***************************************************************************)
(* Model of the XKCD comic service (XKCDService), the comics router and    *)
(* the error-handling middleware.                                          *)
(*                                                                         *)
(* A service call runs synchronously up to its first network await; the    *)
(* call is then parked in `calls` with pc = "fetch" until the provider's   *)
(* response arrives (FetchRespond), where the rest of the method runs.     *)
(* `await fetch(...)` and the following `await response.json()` are taken  *)
(* as one arrival: the method reads no shared state between the two.       *)
(***************************************************************************)
EXTENDS Integers, Sequences, FiniteSets, TLC

VARIABLES cache, calls, now, ticks, provLatest, handled

vars == <<cache, calls, now, ticks, provLatest, handled>>

-----------------------------------------------------------------------------
(* Bounds of the model *)

\* service calls (including the ones a method starts itself) per behaviour
MaxCalls == 2
\* clock advances per behaviour
MaxTicks == 2
\* comics the provider can have published
MaxComic == 2

-----------------------------------------------------------------------------
(* JavaScript values *)

Undefined == [t |-> "undefined"]
NaN == [t |-> "NaN"]

\* a finite number, kept in halves so that 1.5 is a value: Num(3) is 1.5
Num(h2) == [t |-> "number", h2 |-> h2]
Int2Num(i) == Num(2 * i)

IsNumber(v) == v.t = "number"
IsInteger(v) == IsNumber(v) /\ v.h2 % 2 = 0
IntOf(v) == v.h2 \div 2

\* a < b on numbers: every comparison with NaN is false
JSLess(a, b) == IsNumber(a) /\ IsNumber(b) /\ a.h2 < b.h2

\* an Error object: its discriminator is `name`; message is a sequence of the
\* pieces the code concatenates
Err(name, message) ==
    [name |-> name, message |-> message, isOperational |-> FALSE,
     statusCode |-> Undefined, timestamp |-> Undefined, details |-> Undefined]

Ok(v) == [ok |-> TRUE, value |-> v]
Fail(e) == [ok |-> FALSE, error |-> e]

-----------------------------------------------------------------------------
(* The provider *)

\* this.cacheTimeout, in milliseconds
cacheTimeout == 5 * 60 * 1000

\* text is a sequence of characters
Titles == <<<<"a", "b">>, <<"b", "c">>, <<"c", "a">>, <<"a", "a">>>>

\* the provider's payload for comic n; comics with an even number carry no
\* transcript
RawComic(n) ==
    LET base == [num |-> n, title |-> Titles[n], img |-> <<"img", n>>,
                 alt |-> <<"alt", n>>, year |-> "2006", month |-> "1",
                 day |-> "1", safe_title |-> Titles[n]]
    IN  IF n % 2 = 1
        THEN [f \in DOMAIN base \cup {"transcript"} |->
                 IF f = "transcript" THEN <<"x", "k">> ELSE base[f]]
        ELSE base

\* what a fetch can end in: a network failure, or a response with a status
Responses == {[net |-> FALSE], [net |-> TRUE, status |-> 200],
              [net |-> TRUE, status |-> 404], [net |-> TRUE, status |-> 500]}

\* response.ok
ResponseOk(r) == r.status >= 200 /\ r.status <= 299

StatusText(s) == CASE s = 200 -> "OK" [] s = 404 -> "Not Found"
                   [] OTHER -> "Internal Server Error"

\* `HTTP ${response.status}: ${response.statusText}`
HttpMessage(r) == <<"HTTP ", ToString(r.status), ": ", StatusText(r.status)>>

\* the message of the error a failed fetch rejects with
NetMessage == <<"request to xkcd.com failed">>

-----------------------------------------------------------------------------
(* XKCDService *)

processComic(comic) ==
    [id |-> comic.num, title |-> comic.title, img |-> comic.img,
     alt |-> comic.alt,
     transcript |-> IF "transcript" \in DOMAIN comic /\ comic.transcript # <<>>
                    THEN comic.transcript ELSE <<>>,
     year |-> comic.year, month |-> comic.month, day |-> comic.day,
     safe_title |-> comic.safe_title]

\* Map.get: the cache is the sequence of its entries in insertion order
CacheGet(c, key) ==
    IF \E i \in 1..Len(c) : c[i].key = key
    THEN LET i == CHOOSE j \in 1..Len(c) : c[j].key = key IN c[i].value
    ELSE Undefined

\* a store that always adds an entry
CacheSetAppend(c, key, value) ==
    Append(c, [key |-> key, value |-> value])

\* Map.set: an existing key keeps its place
CacheSet(c, key, value) ==
    IF \E i \in 1..Len(c) : c[i].key = key
    THEN [i \in 1..Len(c) |-> IF c[i].key = key
                              THEN [key |-> key, value |-> value] ELSE c[i]]
    ELSE Append(c, [key |-> key, value |-> value])

LatestKey == <<"latest">>
\* `comic-${id}`
ComicKey(id) == <<"comic-", id>>

\* the freshness test with the boundary instant counted as fresh
LatestFreshInclusive(cached, t) ==
    cached # Undefined /\ t - cached.timestamp <= 5 * 60 * 1000

\* the test of getLatest's cache hit
LatestFresh(cached, t) ==
    cached # Undefined /\ t - cached.timestamp < cacheTimeout

\* a call record: the method and its argument, where the call stands, the url
\* it fetches and the response it got, its result, the number of fetches it
\* issued, whether the result came from the cache, whether the caller dropped
\* the promise, the local `cached` of getLatest, and for a call made for a
\* request, the request, the response sent and what wrote it ("handler" for
\* the route's res.json, "errorHandler", "validate"; "" while none is sent)
Call(op, arg, pc, url, result, fetches, fromCache, detached) ==
    [op |-> op, arg |-> arg, pc |-> pc, url |-> url, result |-> result,
     fetches |-> fetches, fromCache |-> fromCache, detached |-> detached,
     cached |-> Undefined, fetched |-> Undefined,
     http |-> Undefined, sent |-> Undefined, sentBy |-> ""]

LatestUrl == <<"latest">>
IdUrl(id) == <<"id", id>>

\* getLatest up to its first await
getLatestSync(detached) ==
    LET cached == CacheGet(cache, LatestKey) IN
    IF LatestFresh(cached, now)
    THEN [Call("getLatest", Undefined, "done", Undefined, Ok(cached.data), 0,
               TRUE, detached) EXCEPT !.cached = cached]
    ELSE [Call("getLatest", Undefined, "fetch", LatestUrl, Undefined, 1,
               FALSE, detached) EXCEPT !.cached = cached]

\* getLatest with a 404 answer reported the way getById reports one
getLatestResumeNotFound(r) ==
    IF r.net /\ r.status = 404
    THEN <<Fail(Err("ComicNotFound", <<"Comic not found">>)), cache>>
    ELSE IF ~r.net
    THEN <<Fail(Err("Error", <<"Failed to fetch latest comic: ">> \o NetMessage)),
           cache>>
    ELSE IF ~ResponseOk(r)
    THEN <<Fail(Err("Error", <<"Failed to fetch latest comic: ">>
                                   \o HttpMessage(r))),
           cache>>
    ELSE LET processedComic == processComic(RawComic(provLatest)) IN
         <<Ok(processedComic),
           CacheSet(cache, LatestKey,
                    [data |-> processedComic, timestamp |-> now])>>

\* getLatest from the arrival of the response: <<result, cache>>
getLatestResume(r) ==
    IF ~r.net
    THEN <<Fail(Err("Error", <<"Failed to fetch latest comic: ">> \o NetMessage)),
           cache>>
    ELSE IF ~ResponseOk(r)
    THEN <<Fail(Err("Error", <<"Failed to fetch latest comic: ">>
                                   \o HttpMessage(r))),
           cache>>
    ELSE LET processedComic == processComic(RawComic(provLatest)) IN
         <<Ok(processedComic),
           CacheSet(cache, LatestKey,
                    [data |-> processedComic, timestamp |-> now])>>

\* getById up to its first await
getByIdSync(id) ==
    IF JSLess(id, Int2Num(1))
    THEN Call("getById", id, "done", Undefined,
              Fail(Err("Error", <<"Invalid comic ID">>)), 0, FALSE, FALSE)
    ELSE LET cachedComic == CacheGet(cache, ComicKey(id)) IN
         IF cachedComic # Undefined
         THEN Call("getById", id, "done", Undefined, Ok(cachedComic), 0,
                   TRUE, FALSE)
         ELSE Call("getById", id, "fetch", IdUrl(id), Undefined, 1, FALSE,
                   FALSE)

\* getById storing the comic of a 2xx response before the statement that
\* throws
getByIdResumeStoring(id, r) ==
    IF ~r.net
    THEN <<Fail(Err("Error", <<"Failed to getByID ">> \o NetMessage)), cache>>
    ELSE IF r.status = 404
    THEN <<Fail(Err("Error", <<"Failed to getByID ", "Comic not found">>)),
           cache>>
    ELSE IF ~ResponseOk(r)
    THEN <<Fail(Err("Error", <<"Failed to getByID ">> \o HttpMessage(r))),
           cache>>
    ELSE <<Fail(Err("ReferenceError", <<"response is not defined">>)),
           CacheSet(cache, ComicKey(id),
                    [data |-> processComic(RawComic(IntOf(id))),
                     timestamp |-> now])>>

\* getById from the arrival of the response: <<result, cache>>.  `response`
\* is a const of the try block, so the statement after the block that reads
\* it throws a ReferenceError and the lines that store the comic never run.
getByIdResume(id, r) ==
    IF ~r.net
    THEN <<Fail(Err("Error", <<"Failed to getByID ">> \o NetMessage)), cache>>
    ELSE IF r.status = 404
    THEN <<Fail(Err("Error", <<"Failed to getByID ", "Comic not found">>)),
           cache>>
    ELSE IF ~ResponseOk(r)
    THEN <<Fail(Err("Error", <<"Failed to getByID ">> \o HttpMessage(r))),
           cache>>
    ELSE <<Fail(Err("ReferenceError", <<"response is not defined">>)), cache>>

\* Math.random(), as fractions <<numerator, denominator>> in [0, 1)
RandomDraws == {<<0, 1>>, <<1, 2>>, <<3, 4>>}

\* `this.getLatest().id`: the property `id` of a pending Promise
PromiseId == Undefined

\* Math.floor(Math.random() * latestID) + 1
RandomID(latestID, u) ==
    IF ~IsInteger(latestID) THEN NaN
    ELSE Int2Num(((u[1] * IntOf(latestID)) \div u[2]) + 1)

\* the catch of getRandom
RandomWrap(result) ==
    IF result.ok THEN result
    ELSE Fail(Err("Error", <<"Failed to fetch random comic: ">>
                             \o result.error.message))

\* getRandom up to its first network await: the getLatest() it starts and
\* never awaits, and its own call record
getRandomSync(u) ==
    LET started == getLatestSync(TRUE)
        latestID == PromiseId
        randomID == RandomID(latestID, u)
        inner == getByIdSync(randomID)
    IN  <<started,
          [inner EXCEPT !.op = "getRandom",
                        !.result = IF inner.pc = "done"
                                   THEN RandomWrap(inner.result)
                                   ELSE Undefined]>>

getRandomResume(id, r) ==
    LET res == getByIdResume(id, r) IN <<RandomWrap(res[1]), res[2]>>

\* String.prototype.includes on sequences of characters
Includes(text, q) ==
    \E i \in 0..(Len(text) - Len(q)) :
        \A j \in 1..Len(q) : text[i + j] = q[j]

\* what a statement completes with
Throws(e) == [throws |-> TRUE, error |-> e]

\* recentComics(): its first statement names `Arrays`, which nothing defines
recentComics(c) ==
    Throws(Err("ReferenceError", <<"Arrays is not defined">>))

\* Math.ceil(total / limit) for total >= 0 and limit > 0
Ceil(total, limit) == (total + limit - 1) \div limit

\* the loop of search and its return statement: `total` is a const, so the
\* first match throws at `total++`
searchScan(pool, query, page, limit) ==
    LET hits == SelectSeq(pool, LAMBDA comic :
                    Includes(comic.title, query)
                    \/ Includes(comic.transcript, query))
    IN  IF hits # <<>>
        THEN Fail(Err("TypeError", <<"Assignment to constant variable.">>))
        ELSE Ok([query |-> query, results |-> <<>>, total |-> 0,
                 pagination |-> [page |-> page, limit |-> limit,
                                 totalPages |-> Ceil(0, limit)]])

\* search starting its getLatest() before it looks at the query
searchSyncLatestFirst(query, page, limit) ==
    LET started == getLatestSync(TRUE)
        pool == recentComics(cache)
    IN  <<started,
          Call("search", <<query, page, limit>>, "done", Undefined,
               IF Len(query) < 1 \/ Len(query) > 100
               THEN Fail(Err("Error", <<"Failed to search ",
                             "Query must be between 1 and 100 characters">>))
               ELSE IF pool.throws THEN Fail(pool.error)
               ELSE searchScan(pool.value, query, page, limit),
               0, FALSE, FALSE)>>

\* search: the sequence of call records it leaves (it awaits no fetch itself)
searchSync(query, page, limit) ==
    IF Len(query) < 1 \/ Len(query) > 100
    THEN <<Call("search", <<query, page, limit>>, "done", Undefined,
                Fail(Err("Error", <<"Failed to search ",
                         "Query must be between 1 and 100 characters">>)),
                0, FALSE, FALSE)>>
    ELSE LET started == getLatestSync(TRUE)
             pool == recentComics(cache)
         IN  <<started,
               Call("search", <<query, page, limit>>, "done", Undefined,
                    IF pool.throws THEN Fail(pool.error)
                    ELSE searchScan(pool.value, query, page, limit),
                    0, FALSE, FALSE)>>

-----------------------------------------------------------------------------
(* The error-handling middleware *)

\* a response: res.status(status).json(body)
Response(status, body) == [status |-> status, body |-> body]

\* err.statusCode: a property the failure does not have reads as undefined
StatusCode(err) ==
    IF "statusCode" \in DOMAIN err THEN err.statusCode ELSE Undefined

errorHandler(err) ==
    IF err.name = "ValidationError"
    THEN Response(400, [error |-> <<"Validation Error">>,
                        message |-> err.message, details |-> err.details])
    ELSE IF err.name = "ComicNotFound"
    THEN Response(404, [error |-> <<"Comic not found">>,
                        message |-> <<"The requested comic does not exist">>])
    ELSE IF err.name = "InvalidComicID"
    THEN Response(400, [error |-> <<"Invalid comic ID">>,
                        message |-> <<"Comic ID must be a positive integer">>])
    ELSE IF err.isOperational
    THEN Response(StatusCode(err), [error |-> err.message,
                                   timestamp |-> err.timestamp])
    ELSE Response(500, [error |-> <<"Internal Server Error">>,
                        message |-> <<"Error handler not implemented">>])

-----------------------------------------------------------------------------
(* The comics router *)

Digits == <<"0", "1", "2", "3", "4", "5", "6", "7", "8", "9">>
IsDigit(ch) == \E d \in 1..Len(Digits) : Digits[d] = ch
DigitVal(ch) == (CHOOSE d \in 1..Len(Digits) : Digits[d] = ch) - 1

IsSign(ch) == ch \in {"+", "-"}

RECURSIVE DigitsVal(_)
\* the value of a sequence of digits
DigitsVal(str) ==
    IF str = <<>> THEN 0
    ELSE 10 * DigitsVal(SubSeq(str, 1, Len(str) - 1)) + DigitVal(str[Len(str)])

\* the longest prefix of str made of digits
RECURSIVE DigitPrefix(_)
DigitPrefix(str) ==
    IF str = <<>> \/ ~IsDigit(Head(str)) THEN <<>>
    ELSE <<Head(str)>> \o DigitPrefix(Tail(str))

\* parseInt(str, 10)
parseInt(str) ==
    LET signed == str # <<>> /\ IsSign(Head(str))
        ds == DigitPrefix(IF signed THEN Tail(str) ELSE str)
    IN  IF ds = <<>> THEN NaN
        ELSE Int2Num(IF signed /\ Head(str) = "-" THEN -DigitsVal(ds)
                     ELSE DigitsVal(ds))

\* express-validator's isInt(options): an optional sign and digits only, with
\* a value inside the range the options give
isInt(str, options) ==
    LET body == IF str # <<>> /\ IsSign(Head(str)) THEN Tail(str) ELSE str IN
    /\ body # <<>>
    /\ \A i \in 1..Len(body) : IsDigit(body[i])
    /\ "min" \in DOMAIN options => IntOf(parseInt(str)) >= options.min
    /\ "max" \in DOMAIN options => IntOf(parseInt(str)) <= options.max

\* the routes in the order the router registers them; a route with
\* param = TRUE is '/:id'
Routes == <<[name |-> "latest", param |-> FALSE, path |-> <<"l", "a", "t", "e", "s", "t">>],
            [name |-> "id", param |-> TRUE, path |-> <<>>],
            [name |-> "random", param |-> FALSE, path |-> <<"r", "a", "n", "d", "o", "m">>],
            [name |-> "search", param |-> FALSE, path |-> <<"s", "e", "a", "r", "c", "h">>]>>

RouteMatches(route, path) ==
    IF route.param THEN path # <<>> ELSE route.path = path

\* the first registered route that matches the path
Dispatch(path) ==
    IF \E i \in 1..Len(Routes) : RouteMatches(Routes[i], path)
    THEN LET i == CHOOSE j \in 1..Len(Routes) :
                     /\ RouteMatches(Routes[j], path)
                     /\ \A k \in 1..(j - 1) : ~RouteMatches(Routes[k], path)
         IN Routes[i].name
    ELSE "none"

\* String.prototype.trim, for the space character
RECURSIVE TrimLeft(_)
TrimLeft(str) ==
    IF str # <<>> /\ Head(str) = " " THEN TrimLeft(Tail(str)) ELSE str
RECURSIVE TrimRight(_)
TrimRight(str) ==
    IF str # <<>> /\ str[Len(str)] = " "
    THEN TrimRight(SubSeq(str, 1, Len(str) - 1)) ELSE str
Trim(str) == TrimRight(TrimLeft(str))

\* `validate`: the message of the first validation error, 400 {error: msg}
ValidationResponse(msg) == Response(400, [error |-> msg])

\* the validators of GET /:id
IdErrors(path) ==
    IF isInt(path, [min |-> 1]) THEN <<>>
    ELSE <<<<"Comic ID must be a positive integer">>>>

\* a parameter of the query string: given with a text, or absent
Given(text) == [given |-> TRUE, text |-> text]
Absent == [given |-> FALSE, text |-> <<>>]

\* the validators of GET /search
SearchErrors(query) ==
    (IF query.q.given /\ Len(Trim(query.q.text)) >= 1
        /\ Len(Trim(query.q.text)) <= 100
     THEN <<>> ELSE <<<<"Query must be between 1 and 100 characters">>>>)
    \o (IF ~query.page.given \/ isInt(query.page.text, [min |-> 1])
        THEN <<>> ELSE <<<<"Page must be a positive integer">>>>)
    \o (IF ~query.limit.given \/ isInt(query.limit.text, [min |-> 1, max |-> 50])
        THEN <<>> ELSE <<<<"Limit must be between 1 and 50">>>>)

\* res.json(value), or next(error) into the error handler
Respond(result) ==
    IF result.ok THEN Response(200, result.value)
    ELSE errorHandler(result.error)

\* what writes the response to a result: the route handler's res.json, or
\* the error handler the catch forwards to with next(error)
Responder(result) == IF result.ok THEN "handler" ELSE "errorHandler"

\* a call record of a request: the response is sent once the call is done
OfRequest(c, req) ==
    [c EXCEPT !.http = req,
              !.sent = IF c.pc = "done" THEN Respond(c.result)
                       ELSE Undefined,
              !.sentBy = IF c.pc = "done" THEN Responder(c.result) ELSE ""]

\* a request the router answers without calling the service: `validate`
\* writes the response itself and does not call next()
Answered(req, response) ==
    [Call("none", Undefined, "done", Undefined, Undefined, 0, FALSE, FALSE)
       EXCEPT !.http = req, !.sent = response, !.sentBy = "validate"]

\* router.get: the call records a request GET /api/comics/<path>?<query>
\* leaves; u is the draw of Math.random() should the random handler run
Route(path, query, u) ==
    LET req == [path |-> path, route |-> Dispatch(path)] IN
    CASE req.route = "latest" ->
           <<OfRequest(getLatestSync(FALSE), req)>>
      [] req.route = "id" ->
           IF IdErrors(path) # <<>>
           THEN <<Answered(req, ValidationResponse(IdErrors(path)[1]))>>
           ELSE <<OfRequest(getByIdSync(parseInt(path)), req)>>
      [] req.route = "random" ->
           LET rs == getRandomSync(u) IN <<rs[1], OfRequest(rs[2], req)>>
      [] req.route = "search" ->
           IF SearchErrors(query) # <<>>
           THEN <<Answered(req, ValidationResponse(SearchErrors(query)[1]))>>
           ELSE LET q == Trim(query.q.text)
                    page == IF query.page.given
                            THEN IntOf(parseInt(query.page.text)) ELSE 1
                    limit == IF query.limit.given
                             THEN IntOf(parseInt(query.limit.text)) ELSE 10
                    rs == searchSync(q, page, limit)
                IN  [i \in 1..Len(rs) |->
                        IF i = Len(rs) THEN OfRequest(rs[i], req) ELSE rs[i]]
      [] OTHER -> <<[Answered(req, Response(404, [error |-> <<"Not Found">>]))
                       EXCEPT !.sentBy = "express"]>>

-----------------------------------------------------------------------------
(* Actions *)

Init ==
    /\ cache = <<>>
    /\ calls = <<>>
    /\ now = 0
    /\ ticks = 0
    /\ provLatest = 1
    /\ handled = Undefined

\* identifiers a caller passes to getById
IdInputs == {Int2Num(0), Int2Num(-1), Int2Num(1), Int2Num(2), Num(3), NaN}

\* a text of n characters
Text(n) == [i \in 1..n |-> "x"]

\* <<query, page, limit>> a caller passes to search
SearchInputs == {<<<<"x", "k">>, 2, 5>>, <<<<"a">>, 1, 10>>, <<<<>>, 1, 10>>,
                 <<Text(100), 1, 10>>, <<Text(101), 2, 5>>}

\* a caller invokes xkcdService.getLatest()
CallGetLatest ==
    /\ Len(calls) < MaxCalls
    /\ calls' = Append(calls, getLatestSync(FALSE))
    /\ UNCHANGED <<cache, now, ticks, provLatest, handled>>

\* a caller invokes xkcdService.getById(id)
CallGetById(id) ==
    /\ Len(calls) < MaxCalls
    /\ calls' = Append(calls, getByIdSync(id))
    /\ UNCHANGED <<cache, now, ticks, provLatest, handled>>

\* a caller invokes xkcdService.getRandom()
CallGetRandom(u) ==
    LET started == getRandomSync(u) IN
    /\ Len(calls) + Len(started) <= MaxCalls
    /\ calls' = calls \o started
    /\ UNCHANGED <<cache, now, ticks, provLatest, handled>>

\* a caller invokes xkcdService.search(query, page, limit)
CallSearch(query, page, limit) ==
    LET started == searchSync(query, page, limit) IN
    /\ Len(calls) + Len(started) <= MaxCalls
    /\ calls' = calls \o started
    /\ UNCHANGED <<cache, now, ticks, provLatest, handled>>

\* a call ends with a result; a request's call sends its response
Finish(c, r, result) ==
    [c EXCEPT !.pc = "done", !.fetched = r, !.result = result,
              !.sent = IF c.http # Undefined THEN Respond(result)
                       ELSE Undefined,
              !.sentBy = IF c.http # Undefined THEN Responder(result) ELSE ""]

\* the provider has the resource a url names
Exists(url) ==
    \/ url = LatestUrl
    \/ /\ url # LatestUrl
       /\ IsInteger(url[2])
       /\ IntOf(url[2]) \in 1..provLatest

\* the provider's response to the fetch of call i arrives and the call runs
\* to its end
FetchRespond(i, r) ==
    /\ i \in 1..Len(calls)
    /\ calls[i].pc = "fetch"
    /\ r.net /\ r.status = 200 => Exists(calls[i].url)
    /\ LET c == calls[i]
           res == CASE c.op = "getLatest" -> getLatestResume(r)
                    [] c.op = "getById" -> getByIdResume(c.arg, r)
                    [] c.op = "getRandom" -> getRandomResume(c.arg, r)
       IN
       /\ calls' = [calls EXCEPT ![i] = Finish(c, r, res[1])]
       /\ cache' = res[2]
    /\ UNCHANGED <<now, ticks, provLatest, handled>>

TickSteps == {1, cacheTimeout - 1}

\* Date.now() advances
Tick(d) ==
    /\ ticks < MaxTicks
    /\ now' = now + d
    /\ ticks' = ticks + 1
    /\ UNCHANGED <<cache, calls, provLatest, handled>>

\* the provider publishes the next comic
Publish ==
    /\ provLatest < MaxComic
    /\ provLatest' = provLatest + 1
    /\ UNCHANGED <<cache, calls, now, ticks, handled>>

\* paths of requests under /api/comics/
PathInputs == {<<"l", "a", "t", "e", "s", "t">>, <<"r", "a", "n", "d", "o", "m">>,
               <<"s", "e", "a", "r", "c", "h">>, <<"1">>, <<"2">>, <<"0">>,
               <<"1", ".", "5">>, <<"+", "1">>, <<"a">>}

SearchQueryInputs ==
    {[q |-> Given(<<"x", "k">>), page |-> Given(<<"2">>), limit |-> Given(<<"5">>)],
     [q |-> Given(<<"x", "k">>), page |-> Absent, limit |-> Absent],
     [q |-> Absent, page |-> Absent, limit |-> Absent]}

\* a client sends GET /api/comics/<path>?<query>
HttpGet(path, query, u) ==
    LET started == Route(path, query, u) IN
    /\ Len(calls) + Len(started) <= MaxCalls
    /\ calls' = calls \o started
    /\ UNCHANGED <<cache, now, ticks, provLatest, handled>>

\* failures a middleware can pass to next()
ErrInputs ==
    LET names == {"Error", "ValidationError", "ComicNotFound",
                  "InvalidComicID", "ReferenceError", "TypeError"}
        messages == {<<"Comic not found">>, <<"Invalid comic ID">>,
                     <<"connect ECONNREFUSED 10.0.0.5:5432">>}
        timestamp == <<"2025-01-01T00:00:00.000Z">>
    IN  {[name |-> n, message |-> m, isOperational |-> o, statusCode |-> s,
          timestamp |-> timestamp, details |-> Undefined] :
            n \in names, m \in messages, o \in BOOLEAN,
            s \in {400, 404, 418, 503}}
        \cup
        \* failures that carry no statusCode
        {[name |-> n, message |-> m, isOperational |-> o,
          timestamp |-> timestamp, details |-> Undefined] :
            n \in names, m \in messages, o \in BOOLEAN}

\* express calls the error handler with a failure
HandleError(err) ==
    /\ handled' = [err |-> err, response |-> errorHandler(err)]
    /\ UNCHANGED <<cache, calls, now, ticks, provLatest>>

Next ==
    \/ CallGetLatest
    \/ \E id \in IdInputs : CallGetById(id)
    \/ \E u \in RandomDraws : CallGetRandom(u)
    \/ \E in \in SearchInputs : CallSearch(in[1], in[2], in[3])
    \/ \E i \in 1..MaxCalls, r \in Responses : FetchRespond(i, r)
    \/ \E d \in TickSteps : Tick(d)
    \/ Publish

Spec == Init /\ [][Next]_vars

\* the server under requests
NextHttp ==
    \/ \E path \in PathInputs, query \in SearchQueryInputs, u \in RandomDraws :
          HttpGet(path, query, u)
    \/ \E i \in 1..MaxCalls, r \in Responses : FetchRespond(i, r)
    \/ \E d \in TickSteps : Tick(d)
    \/ Publish

SpecHttp == Init /\ [][NextHttp]_vars

\* the error handler under failures
NextHandler == \E err \in ErrInputs : HandleError(err)

SpecHandler == Init /\ [][NextHandler]_vars

-----------------------------------------------------------------------------
(* Properties *)

Started == 1..Len(calls)
Done(i) == calls[i].pc = "done"
Succeeded(i) == Done(i) /\ calls[i].result # Undefined /\ calls[i].result.ok
Failed(i) == Done(i) /\ calls[i].result # Undefined /\ ~calls[i].result.ok
\* the provider answered the fetch of call i with a 2xx status
Answered2xx(i) ==
    /\ calls[i].fetched # Undefined
    /\ calls[i].fetched.net
    /\ ResponseOk(calls[i].fetched)
\* the calls a step starts
NewCalls == (Len(calls) + 1)..Len(calls')

\* C1: a getById(id) that starts after a getById(id) whose fetch the provider
\* answered with the comic ends at once with that Comic (the Comic itself,
\* not a cache entry) and issues no fetch.
C1_SecondCallFromCache ==
    [][\A j \in NewCalls : \A i \in Started :
          /\ calls'[j].op = "getById"
          /\ calls[i].op = "getById"
          /\ calls[i].arg = calls'[j].arg
          /\ Done(i)
          /\ Answered2xx(i)
          => /\ calls'[j].pc = "done"
             /\ calls'[j].fetches = 0
             /\ calls'[j].result =
                    Ok(processComic(RawComic(IntOf(calls'[j].arg))))]_vars

\* C2: getById with an id below 1 or a non-integer id fails with an
\* InvalidComicID failure and issues no fetch.
C2_InvalidIdRejected ==
    \A i \in Started :
       /\ calls[i].op = "getById"
       /\ JSLess(calls[i].arg, Int2Num(1)) \/ ~IsInteger(calls[i].arg)
       => /\ Failed(i)
          /\ calls[i].result.error.name = "InvalidComicID"
          /\ calls[i].fetches = 0

\* C3: a getLatest() that finds a 'latest' entry younger than 5 minutes ends
\* at once with the entry's Comic, issues no fetch and leaves the cache as it
\* is; one that finds no entry, or an entry of 5 minutes or more, fetches; and
\* a getLatest() whose fetch succeeds returns the provider's current Comic and
\* stores it under 'latest' with the current time.
C3_LatestCachePolicy ==
    [][/\ \A j \in NewCalls :
             calls'[j].op = "getLatest" =>
                LET entry == CacheGet(cache, LatestKey) IN
                IF entry # Undefined /\ now - entry.timestamp < 5 * 60 * 1000
                THEN /\ calls'[j].pc = "done"
                     /\ calls'[j].result = Ok(entry.data)
                     /\ calls'[j].fetches = 0
                     /\ cache' = cache
                ELSE /\ calls'[j].pc = "fetch"
                     /\ calls'[j].url = LatestUrl
                     /\ calls'[j].fetches = 1
       /\ \A i \in Started :
             /\ calls[i].op = "getLatest"
             /\ ~Done(i)
             /\ calls'[i].pc = "done"
             /\ calls'[i].result.ok
             => /\ calls'[i].result.value = processComic(RawComic(provLatest))
                /\ CacheGet(cache', LatestKey) =
                       [data |-> calls'[i].result.value, timestamp |-> now]]_vars

\* a getLatest() found an entry of exactly 5 minutes, fetched, and returned a
\* Comic other than the one the entry held
C3_Witness ==
    \E i \in Started :
       /\ calls[i].op = "getLatest"
       /\ Succeeded(i)
       /\ ~calls[i].fromCache
       /\ calls[i].cached # Undefined
       /\ calls[i].result.value # calls[i].cached.data
       /\ CacheGet(cache, LatestKey).data = calls[i].result.value
       /\ CacheGet(cache, LatestKey).timestamp - calls[i].cached.timestamp
             = 5 * 60 * 1000

\* the names the error handler has a case for
HandledNames == {"ValidationError", "ComicNotFound", "InvalidComicID"}

\* why a fetch failed: the rejection's message, or the status line
FetchReason(r) == IF r.net THEN HttpMessage(r) ELSE NetMessage

\* text ends with suffix
EndsWith(text, suffix) ==
    /\ Len(text) >= Len(suffix)
    /\ SubSeq(text, Len(text) - Len(suffix) + 1, Len(text)) = suffix

\* a transport failure: it carries the reason the fetch failed, the error
\* handler has no case of its own for it and answers it 500
IsTransportError(error, r) ==
    /\ error.name \notin HandledNames
    /\ EndsWith(error.message, FetchReason(r))
    /\ errorHandler(error).status = 500

\* C4: a getById whose fetch is answered 404 fails with a ComicNotFound
\* failure, one answered with another non-2xx status fails with a
\* TransportError failure, and one answered 2xx fails with neither.
C4_FetchFailureClasses ==
    \A i \in Started :
       /\ calls[i].op = "getById"
       /\ Done(i)
       /\ calls[i].fetched # Undefined
       /\ calls[i].fetched.net
       => IF calls[i].fetched.status = 404
          THEN Failed(i) /\ calls[i].result.error.name = "ComicNotFound"
          ELSE IF ~ResponseOk(calls[i].fetched)
          THEN Failed(i) /\ IsTransportError(calls[i].result.error,
                                             calls[i].fetched)
          ELSE ~(Failed(i)
                 /\ \/ calls[i].result.error.name = "ComicNotFound"
                    \/ IsTransportError(calls[i].result.error,
                                        calls[i].fetched))

\* C5: getRandom() passes getById an integer r with 1 <= r, and r is at most
\* the id of the Comic its getLatest() returned.
C5_RandomIdInRange ==
    \A i \in Started :
       calls[i].op = "getRandom" =>
          /\ IsInteger(calls[i].arg)
          /\ IntOf(calls[i].arg) >= 1
          /\ Succeeded(i - 1) =>
                IntOf(calls[i].arg) <= calls[i - 1].result.value.id

\* C6: search with a query of 1 to 100 characters on an empty cache succeeds
\* with no results, total 0, totalPages 0 and the page and limit it was given.
C6_SearchEmptyCache ==
    \A i \in Started :
       /\ calls[i].op = "search"
       /\ Len(calls[i].arg[1]) \in 1..100
       /\ cache = <<>>
       => /\ Done(i)
          /\ calls[i].result =
                Ok([query |-> calls[i].arg[1], results |-> <<>>, total |-> 0,
                    pagination |-> [page |-> calls[i].arg[2],
                                    limit |-> calls[i].arg[3],
                                    totalPages |-> 0]])

\* C7: search with an empty query or one of more than 100 characters fails
\* with a ValidationError failure, and the step starts no call of getLatest,
\* issues no fetch and leaves the cache as it is.
C7_SearchQueryValidation ==
    [][\A j \in NewCalls :
          /\ calls'[j].op = "search"
          /\ Len(calls'[j].arg[1]) \notin 1..100
          => /\ calls'[j].pc = "done"
             /\ ~calls'[j].result.ok
             /\ calls'[j].result.error.name = "ValidationError"
             /\ calls'[j].fetches = 0
             /\ NewCalls = {j}
             /\ cache' = cache]_vars

\* the paths of the literal routes
RandomPath == <<"r", "a", "n", "d", "o", "m">>
SearchPath == <<"s", "e", "a", "r", "c", "h">>

\* C8: a request GET /random reaches the random handler and is answered 200
\* or 500, and a request GET /search reaches the search handler and is
\* answered 200 or 400; neither is answered by the validators of GET /:id.
C8_LiteralRoutesReached ==
    \A i \in Started :
       calls[i].http # Undefined =>
          /\ calls[i].http.path = RandomPath =>
                /\ calls[i].http.route = "random"
                /\ calls[i].sent # Undefined
                      => calls[i].sent.status \in {200, 500}
          /\ calls[i].http.path = SearchPath =>
                /\ calls[i].http.route = "search"
                /\ calls[i].sent # Undefined
                      => calls[i].sent.status \in {200, 400}
          /\ calls[i].http.path \in {RandomPath, SearchPath}
             /\ calls[i].sent # Undefined
             => calls[i].sent.body
                   # [error |-> <<"Comic ID must be a positive integer">>]

\* C9: a request GET /:id with a valid id is answered 200 with the Comic when
\* the provider answers 2xx, 404 with the comic-not-found body when the
\* provider answers 404, and 500 when the fetch fails in another way.
C9_IdRouteStatus ==
    \A i \in Started :
       /\ calls[i].http # Undefined
       /\ calls[i].http.route = "id"
       /\ calls[i].op = "getById"
       /\ Done(i)
       /\ calls[i].fetched # Undefined
       => IF ~calls[i].fetched.net THEN calls[i].sent.status = 500
          ELSE IF calls[i].fetched.status = 404
          THEN calls[i].sent =
                  Response(404, [error |-> <<"Comic not found">>,
                                 message |->
                                   <<"The requested comic does not exist">>])
          ELSE IF ~ResponseOk(calls[i].fetched)
          THEN calls[i].sent.status = 500
          ELSE calls[i].sent =
                  Response(200, processComic(RawComic(IntOf(calls[i].arg))))

\* C10: a failure that is no ValidationError, ComicNotFound or InvalidComicID
\* and is not operational is answered 500 with the body {error: "Internal
\* Server Error", message: "Something went wrong on our end"}.
C10_DefaultResponse ==
    /\ handled # Undefined
    /\ handled.err.name
          \notin {"ValidationError", "ComicNotFound", "InvalidComicID"}
    /\ ~handled.err.isOperational
    => handled.response =
          Response(500, [error |-> <<"Internal Server Error">>,
                         message |-> <<"Something went wrong on our end">>])

\* C11: every response that reports a failure of a request (a status of 400
\* or more) is written by the central error handler; no route and no routing
\* middleware writes one itself.
C11_FailuresReachErrorHandler ==
    \A i \in Started :
       /\ calls[i].http # Undefined
       /\ calls[i].sent # Undefined
       /\ calls[i].sent.status >= 400
       => calls[i].sentBy = "errorHandler"

\* the message getRandom's catch gives a failure it wraps
RandomMessage(error) == <<"Failed to fetch random comic: ">> \o error.message

\* C12: when the getLatest() of a getRandom() fails, getRandom() fails with
\* that failure wrapped as coming from the random path, the failure is
\* observed by getRandom (its promise is awaited), and getRandom issues no
\* per-id fetch; when its getById fails, getRandom() fails with that failure
\* wrapped the same way.
C12_RandomPropagatesFailures ==
    \A i \in Started :
       calls[i].op = "getRandom" =>
          /\ Failed(i - 1) =>
                /\ ~calls[i - 1].detached
                /\ calls[i].fetches = 0
                /\ Failed(i)
                /\ calls[i].result.error.message
                      = RandomMessage(calls[i - 1].result.error)
          /\ ~Failed(i - 1) /\ Done(i) /\ calls[i].fetched # Undefined
             /\ ~Answered2xx(i) =>
                /\ Failed(i)
                /\ calls[i].result.error.message
                      = RandomMessage(getByIdResume(calls[i].arg,
                                                    calls[i].fetched)[1].error)

\* C13: a getLatest() whose fetch fails (no response, or a status outside
\* 2xx, 404 included) fails with a transport failure, never with a
\* not-found failure, and the step leaves the cache as it was.
C13_LatestFailsAsTransportError ==
    [][\A i \in Started :
          /\ calls[i].op = "getLatest"
          /\ ~Done(i)
          /\ calls'[i].pc = "done"
          /\ ~calls'[i].fetched.net \/ ~ResponseOk(calls'[i].fetched)
          => /\ ~calls'[i].result.ok
             /\ IsTransportError(calls'[i].result.error, calls'[i].fetched)
             /\ calls'[i].result.error.name \notin {"ComicNotFound", "NotFound"}
             /\ cache' = cache]_vars

\* a getLatest() that found a stale entry was answered 404 and failed, and
\* the entry is still the cached one
C13_Witness ==
    \E i \in Started :
       /\ calls[i].op = "getLatest"
       /\ Failed(i)
       /\ calls[i].fetched.net
       /\ calls[i].fetched.status = 404
       /\ calls[i].cached # Undefined
       /\ CacheGet(cache, LatestKey) = calls[i].cached

\* the most entries recentComics takes from the cache
PoolLimit == 100

\* the Comics of the last PoolLimit entries of a cache, the last stored first
ExpectedPool(c) ==
    LET n == Len(c)
        m == IF n < PoolLimit THEN n ELSE PoolLimit
    IN  [k \in 1..m |-> c[n - k + 1].value.data]

\* the matching rule of search
Matches(comic, query) ==
    Includes(comic.title, query) \/ Includes(comic.transcript, query)

\* the members of a sequence
Range(seq) == {seq[k] : k \in 1..Len(seq)}

\* C14: a search with a query of 1 to 100 characters returns results that
\* are Comics of the pool (the last 100 entries of the cache as it is when
\* search is called, the last stored first), in the order of the pool.
C14_PoolOrder ==
    [][\A j \in NewCalls :
          /\ calls'[j].op = "search"
          /\ Len(calls'[j].arg[1]) \in 1..100
          => /\ calls'[j].result.ok
             /\ LET results == calls'[j].result.value.results IN
                SelectSeq(ExpectedPool(cache),
                          LAMBDA comic : comic \in Range(results)) = results]_vars

\* C15: a search with a query of 1 to 100 characters succeeds, its results
\* are exactly the Comics of the pool whose title or transcript contains the
\* query, and total is their number.
C15_ExactMatches ==
    [][\A j \in NewCalls :
          /\ calls'[j].op = "search"
          /\ Len(calls'[j].arg[1]) \in 1..100
          => /\ calls'[j].pc = "done"
             /\ calls'[j].result.ok
             /\ LET response == calls'[j].result.value
                    hits == {comic \in Range(ExpectedPool(cache)) :
                               Matches(comic, calls'[j].arg[1])}
                IN  /\ Range(response.results) = hits
                    /\ response.total = Cardinality(hits)
                    /\ Len(response.results) = response.total]_vars

\* the least k with k * limit >= total
Ceiling(total, limit) ==
    CHOOSE k \in 0..total : k * limit >= total
                            /\ \A h \in 0..(k - 1) : h * limit < total

\* C16: a search with a query of 1 to 100 characters and a limit above 0
\* returns a response whose pagination.totalPages is the ceiling of its
\* total over the limit, 0 when total is 0.
C16_TotalPages ==
    \A i \in Started :
       /\ calls[i].op = "search"
       /\ Len(calls[i].arg[1]) \in 1..100
       /\ calls[i].arg[3] > 0
       => /\ Succeeded(i)
          /\ LET response == calls[i].result.value IN
             /\ response.total >= 0
             /\ response.pagination.totalPages
                   = Ceiling(response.total, calls[i].arg[3])

\* the key a call stores its comic under
KeyOf(c) == IF c.op = "getLatest" THEN LatestKey ELSE ComicKey(c.arg)

\* call i ends in this step
Completes(i) == ~Done(i) /\ calls'[i].pc = "done"

\* C17: the cache changes only in a step in which a call ends a fetch the
\* provider answered 2xx with success, and then by storing that call's Comic
\* under that call's key; every entry under 'comic-<id>' holds a Comic
\* whose id is <id>; a getById or getLatest call that fails leaves the whole
\* cache as it was.
C17_CacheWrittenOnlyOnSuccess ==
    [][/\ cache' # cache =>
             \E i \in Started :
                /\ Completes(i)
                /\ calls'[i].fetched.net /\ ResponseOk(calls'[i].fetched)
                /\ calls'[i].result.ok
                /\ cache' = CacheSet(cache, KeyOf(calls[i]),
                                     [data |-> calls'[i].result.value,
                                      timestamp |-> now])
       /\ \A k \in 1..Len(cache') :
             cache'[k].key # LatestKey =>
                cache'[k].key = ComicKey(Int2Num(cache'[k].value.data.id))
       /\ \A i \in Started :
             /\ calls[i].op \in {"getById", "getLatest"}
             /\ Completes(i)
             /\ ~calls'[i].result.ok
             => cache' = cache
       /\ \A j \in NewCalls :
             calls'[j].pc = "done" /\ ~calls'[j].result.ok => cache' = cache]_vars

C17_Witness ==
    \E i, j \in Started :
       /\ calls[i].op = "getLatest" /\ Succeeded(i) /\ ~calls[i].fromCache
       /\ CacheGet(cache, LatestKey).data = calls[i].result.value
       /\ calls[j].op = "getById" /\ Failed(j)
       /\ calls[j].fetched # Undefined
       /\ calls[j].fetched.net /\ ResponseOk(calls[j].fetched)

\* the failure is flagged operational and carries a status of its own
OperationalWithStatus(err) ==
    err.isOperational /\ "statusCode" \in DOMAIN err

\* the response is the default case's
DefaultCase(response) ==
    /\ response.body.error = <<"Internal Server Error">>
    /\ response.status = 500

\* C18: the error handler answers a failure by the first case that matches,
\* in the order ValidationError (400), ComicNotFound (404), InvalidComicID
\* (400), operational with a status (that status, {error: message,
\* timestamp}), default (500); a failure with one of the three names is
\* answered by its name's case even when it is flagged operational.
C18_FirstMatchingCase ==
    handled # Undefined =>
       LET err == handled.err
           response == handled.response
       IN  /\ err.name = "ValidationError" =>
                 /\ response.status = 400
                 /\ response.body.error = <<"Validation Error">>
           /\ err.name = "ComicNotFound" =>
                 /\ response.status = 404
                 /\ response.body.error = <<"Comic not found">>
           /\ err.name = "InvalidComicID" =>
                 /\ response.status = 400
                 /\ response.body.error = <<"Invalid comic ID">>
           /\ err.name \notin HandledNames /\ OperationalWithStatus(err) =>
                 response = Response(err.statusCode,
                                     [error |-> err.message,
                                      timestamp |-> err.timestamp])
           /\ err.name \notin HandledNames /\ ~OperationalWithStatus(err) =>
                 DefaultCase(response)

\* the entries of a cache under a key
EntriesOf(c, key) == {k \in 1..Len(c) : c[k].key = key}

\* a getLatest call that is waiting for its own fetch
LatestInFlight(i) == calls[i].op = "getLatest" /\ calls[i].pc = "fetch"

\* C19: a getLatest() started while the cache has no fresh 'latest' entry
\* issues a fetch of its own even when another getLatest() is waiting for
\* one; a getLatest() that ends its fetch with success returns the Comic of
\* its own response and leaves exactly one 'latest' entry, which holds that
\* Comic, whatever an overlapping call stored before; between such steps
\* the entry stays as the last one left it.
C19_OverlappingLatest ==
    [][/\ \A j \in NewCalls :
             /\ calls'[j].op = "getLatest"
             /\ ~LatestFresh(CacheGet(cache, LatestKey), now)
             => /\ calls'[j].pc = "fetch"
                /\ calls'[j].fetches = 1
                /\ \A i \in Started : LatestInFlight(i) =>
                      calls'[i] = calls[i]
       /\ \A i \in Started :
             LatestInFlight(i) /\ Completes(i) /\ calls'[i].result.ok
             => /\ calls'[i].fetches = 1 /\ ~calls'[i].fromCache
                /\ calls'[i].result.value = processComic(RawComic(provLatest))
                /\ Cardinality(EntriesOf(cache', LatestKey)) = 1
                /\ CacheGet(cache', LatestKey).data = calls'[i].result.value
                /\ \A k \in Started \ {i} : calls'[k] = calls[k]
       /\ (\A i \in Started : ~(LatestInFlight(i) /\ Completes(i)))
             => cache' = cache
       /\ Cardinality(EntriesOf(cache', LatestKey)) <= 1]_vars

\* two getLatest() calls overlapped (the clock never moved, so neither began
\* after the other had stored), each fetched, they returned different
\* Comics, and the cache holds the one entry of the call that ended last
C19_Witness ==
    /\ Len(calls) = 2 /\ now = 0
    /\ \A i \in {1, 2} :
          /\ calls[i].op = "getLatest" /\ Succeeded(i)
          /\ calls[i].fetches = 1 /\ ~calls[i].fromCache
    /\ calls[1].result.value # calls[2].result.value
    /\ Cardinality(EntriesOf(cache, LatestKey)) = 1
    /\ CacheGet(cache, LatestKey).data = calls[1].result.value
    /\ calls[1].result.value.id = provLatest

====
